---- MODULE Spec2Model ----
(***************************************************************************)
(* A model of the roommates crate: occupancy accounting over date          *)
(* intervals (interval.rs), responsibility splits and cost splits          *)
(* (split.rs), and the Bill / SharedBill constructors (bill.rs,            *)
(* shared_cost.rs).                                                        *)
(*                                                                         *)
(* The crate is a library of pure functions over immutable values.  Each   *)
(* public or crate-level call is one action; `call` holds the operation    *)
(* and its arguments, `ret` the value it returned (or a panic).  Values    *)
(* that live across calls (the RoommateGroup, the ResponsibilityRecord,    *)
(* a ResponsibilitySplit, Bills) are variables of their own.  The calls    *)
(* are pure: a second call on the same values would only overwrite `call`  *)
(* and `ret`, so a behaviour builds its values and then makes one call.    *)
(*                                                                         *)
(* Dates are day numbers (chrono::NaiveDate is a day count), Money is a    *)
(* record of a currency and an integer number of minor units (steel_cent), *)
(* Ratio<u32> is a reduced numerator/denominator pair (num::rational).     *)
(*                                                                         *)
(* Two things the source leaves to the build and to the run are inputs of  *)
(* an action: whether integer overflow panics or wraps (overflow_checks),  *)
(* and the order in which a HashMap yields its values (Orders).            *)
(***************************************************************************)
EXTENDS Integers, Sequences, FiniteSets, TLC

VARIABLES group, record, rsplit, bill, bills, call, ret

vars == <<group, record, rsplit, bill, bills, call, ret>>

(***************************************************************************)
(* Bounds of the model                                                     *)
(***************************************************************************)
\* dates range over the day numbers 0..MaxDay
MaxDay == 2
\* additional_people is 0 or MaxExtra
MaxExtra == 1
\* a ResponsibilityRecord holds at most MaxIntervals intervals
MaxIntervals == 2

\* money amounts range up to MaxMinor minor units
MaxMinor == 3

\* split_bill_list is given at most MaxBills bills
MaxBills == 2
\* the ratios a split is built of have denominators up to MaxDenom
MaxDenom == 3

\* i64 is modelled with I64Width bits and u32 with U32Width bits: wide enough
\* for every sum and product of the amounts and occupancies above, so that
\* only the extreme values named below reach the limits of the types
I64Width == 5
U32Width == 6

\* model.rsquared() < 0.70, in hundredths
MinRSquaredPct == 70
\* error > 0.2, in hundredths
MaxMapePct == 20

Names == {"bob", "joe"}

Currencies == {"USD", "EUR"}

Days == 0..MaxDay

Extras == {0, MaxExtra}

None == [tag |-> "None"]

Panic == [tag |-> "Panic"]

I64Max == 2 ^ (I64Width - 1) - 1

I64Min == -(2 ^ (I64Width - 1))

U32Max == 2 ^ U32Width - 1

Min(a, b) == IF a <= b THEN a ELSE b

Max(a, b) == IF a >= b THEN a ELSE b

(***************************************************************************)
(* interval.rs                                                             *)
(***************************************************************************)
\* create_interval rejecting the one-day interval as well
create_interval_strict(start, end) ==
    IF start >= end
    THEN [tag |-> "Err", err |-> "NegativeLengthInterval"]
    ELSE [tag |-> "Ok", start |-> start, end |-> end]

\* DateInterval::create_interval: Err(NegativeLengthInterval) when start > end
create_interval(start, end) ==
    IF start > end
    THEN [tag |-> "Err", err |-> "NegativeLengthInterval"]
    ELSE [tag |-> "Ok", start |-> start, end |-> end]

DateIntervals ==
    {[tag |-> "Ok", start |-> s, end |-> e] : s \in Days, e \in Days} \cap
    {create_interval(s, e) : s \in Days, e \in Days}

\* ResponsibilityInterval::new
ResponsibilityInterval(roommate, interval, additional_people) ==
    [roommate |-> roommate, interval |-> interval,
     additional_people |-> additional_people]

\* ResponsibilityInterval::num_people
num_people(r) == 1 + r.additional_people

\* DateInterval::num_days_bounded_by without the clamp at zero
num_days_bounded_by_unclamped(self, bounds) ==
    Min(self.end + 1, bounds.end + 1) - Max(self.start, bounds.start)

\* DateInterval::num_days_bounded_by with exclusive end days
num_days_bounded_by_exclusive(self, bounds) ==
    Max(0, Min(self.end, bounds.end) - Max(self.start, bounds.start))

\* DateInterval::num_days_bounded_by truncating at the interval's own end only
num_days_bounded_by_own_end(self, bounds) ==
    Max(0, (self.end + 1) - Max(self.start, bounds.start))

\* DateInterval::num_days_bounded_by
num_days_bounded_by(self, bounds) ==
    LET signed_duration ==
            Min(self.end + 1, bounds.end + 1) - Max(self.start, bounds.start)
    IN  Max(0, signed_duration)

\* ResponsibilityRecord::occupancy_over: the sum over the Vec of intervals
RECURSIVE occupancy_over(_, _)
occupancy_over(intervals, period) ==
    IF intervals = <<>>
    THEN 0
    ELSE num_people(Head(intervals))
             * num_days_bounded_by(Head(intervals).interval, period)
         + occupancy_over(Tail(intervals), period)

\* occupancy_over in u32: 1 + additional_people, its product with the day
\* count, or the sum is out of range
occupancy_over_overflows(intervals, period) ==
    \/ \E i \in 1..Len(intervals) :
           \/ num_people(intervals[i]) > U32Max
           \/ num_people(intervals[i])
                  * num_days_bounded_by(intervals[i].interval, period) > U32Max
    \/ occupancy_over(intervals, period) > U32Max

\* what a call of occupancy_over returns: out of range, the arithmetic
\* panics when the build checks overflow (debug) and wraps when it does
\* not (release)
occupancy_over_u32(intervals, period, overflow_checks) ==
    IF ~occupancy_over_overflows(intervals, period)
    THEN [tag |-> "Ok", value |-> occupancy_over(intervals, period)]
    ELSE IF overflow_checks
    THEN Panic
    ELSE [tag |-> "Ok",
          value |-> occupancy_over(intervals, period) % (2 ^ U32Width)]

(***************************************************************************)
(* num::rational::Ratio<u32>                                               *)
(***************************************************************************)
RECURSIVE GCD(_, _)
GCD(a, b) == IF b = 0 THEN a ELSE GCD(b, a % b)

\* Ratio::new reduces to lowest terms (denom > 0)
RatioNew(numer, denom) ==
    LET g == GCD(numer, denom)
    IN  [numer |-> numer \div g, denom |-> denom \div g]

RatioFromInteger(n) == [numer |-> n, denom |-> 1]

\* an addition that forgets what was summed so far
RatioAdd_keep_last(a, b) == b

\* Ratio + Ratio
RatioAdd(a, b) ==
    IF a.denom = b.denom
    THEN RatioNew(a.numer + b.numer, b.denom)
    ELSE LET lcm == a.denom * (b.denom \div GCD(a.denom, b.denom))
         IN  RatioNew(a.numer * (lcm \div a.denom) + b.numer * (lcm \div b.denom),
                      lcm)

\* the orders in which a HashSet or HashMap may yield the elements of S
Orders(S) ==
    {o \in [1..Cardinality(S) -> S] : \A x \in S : \E i \in DOMAIN o : o[i] = x}

\* map.values().sum::<Ratio<u32>>(): the values are added to zero one by
\* one, in the order in which the HashMap yields them
RECURSIVE RatioSum(_, _)
RatioSum(map, order) ==
    IF order = <<>>
    THEN RatioFromInteger(0)
    ELSE RatioAdd(RatioSum(map, SubSeq(order, 1, Len(order) - 1)),
                  map[order[Len(order)]])

(***************************************************************************)
(* split.rs: responsibility splits                                         *)
(***************************************************************************)
\* roommate_responsibility without the filter on the roommate
roommate_responsibility_unfiltered(intervals, roommate, billing_period) ==
    LET total_cost == occupancy_over(intervals, billing_period)
    IN  IF total_cost = 0
        THEN RatioFromInteger(0)
        ELSE RatioNew(occupancy_over(intervals, billing_period), total_cost)

\* ResponsibilityRecord::roommate_responsibility
roommate_responsibility(intervals, roommate, billing_period) ==
    LET roommate_intervals ==
            SelectSeq(intervals, LAMBDA i : i.roommate = roommate)
        total_cost == occupancy_over(intervals, billing_period)
    IN  IF total_cost = 0
        THEN RatioFromInteger(0)
        ELSE RatioNew(occupancy_over(roommate_intervals, billing_period),
                      total_cost)

\* build_split accepting any non-zero sum
build_split_unchecked(grp, map, order) ==
    LET sum == RatioSum(map, order)
    IN  IF sum = RatioFromInteger(0)
        THEN [tag |-> "Ok",
              map |-> [r \in grp |-> RatioNew(1, Cardinality(grp))]]
        ELSE [tag |-> "Ok", map |-> map]

\* build_split returning the all-zero map unchanged
build_split_keep_zero(grp, map, order) ==
    LET sum == RatioSum(map, order)
    IN  IF sum = RatioFromInteger(1) \/ sum = RatioFromInteger(0)
        THEN [tag |-> "Ok", map |-> map]
        ELSE [tag |-> "Err", err |-> "InvalidSplit"]

\* RoommateGroup::build_split; `order` is the order in which map.values()
\* yields the ratios.  The keys of the map are the roommates of the group in
\* every call made here, so the debug assertion on the keys passes.
build_split(grp, map, order) ==
    LET sum == RatioSum(map, order)
    IN  IF sum = RatioFromInteger(1)
        THEN [tag |-> "Ok", map |-> map]
        ELSE IF sum = RatioFromInteger(0)
        THEN [tag |-> "Ok",
              map |-> [r \in grp |-> RatioNew(1, Cardinality(grp))]]
        ELSE [tag |-> "Err", err |-> "InvalidSplit"]

\* RoommateGroup::individual_responsibilities: build_split(map).unwrap()
individual_responsibilities(grp, intervals, billing_period, order) ==
    LET map == [r \in grp |->
                    roommate_responsibility(intervals, r, billing_period)]
        res == build_split(grp, map, order)
    IN  IF res.tag = "Ok" THEN res ELSE Panic

(***************************************************************************)
(* Specification of the occupancy / responsibility calls                   *)
(***************************************************************************)
Init ==
    /\ group \in SUBSET Names
    /\ record = <<>>
    /\ rsplit = None
    /\ bill = None
    /\ bills = <<>>
    /\ call = [op |-> "none"]
    /\ ret = None

\* no call has been made on the values built so far
Building == call.op \in {"none", "ResponsibilityInterval::new"}

\* one more ResponsibilityInterval::new collected into the record
NewInterval ==
    /\ Building
    /\ Len(record) < MaxIntervals
    /\ \E r \in Names, s \in Days, e \in Days, x \in Extras :
           LET di == create_interval(s, e)
           IN  /\ di.tag = "Ok"
               /\ record' = Append(record, ResponsibilityInterval(r, di, x))
               /\ call' = [op |-> "ResponsibilityInterval::new"]
               /\ UNCHANGED <<group, rsplit, bill, bills, ret>>

\* record.occupancy_over(period)
OccupancyOver ==
    /\ Building
    /\ \E p \in DateIntervals, overflow_checks \in BOOLEAN :
        /\ call' = [op |-> "occupancy_over", period |-> p]
        /\ ret' = occupancy_over_u32(record, p, overflow_checks)
        /\ UNCHANGED <<group, record, rsplit, bill, bills>>

\* group.individual_responsibilities(&record, billing_period)
IndividualResponsibilities ==
    /\ Building
    /\ \E p \in DateIntervals, order \in Orders(group) :
        /\ call' = [op |-> "individual_responsibilities", period |-> p]
        /\ ret' = individual_responsibilities(group, record, p, order)
        /\ UNCHANGED <<group, record, rsplit, bill, bills>>

Next ==
    \/ NewInterval
    \/ IndividualResponsibilities

Spec == Init /\ [][Next]_vars

(***************************************************************************)
(* Specification of occupancy_over alone: the group is not read            *)
(***************************************************************************)
InitOcc ==
    /\ Init
    /\ group = Names

\* DateInterval::new(start, end), for valid dates
DateIntervalNew ==
    /\ call.op = "none"
    /\ \E start \in Days, end \in Days :
        /\ call' = [op |-> "DateInterval::new", start |-> start, end |-> end]
        /\ ret' = create_interval(start, end)
        /\ UNCHANGED <<group, record, rsplit, bill, bills>>

\* a.num_days_bounded_by(b)
NumDaysBoundedBy ==
    /\ call.op = "none"
    /\ \E a \in DateIntervals, b \in DateIntervals :
        /\ call' = [op |-> "num_days_bounded_by", self |-> a, bounds |-> b]
        /\ ret' = num_days_bounded_by(a, b)
        /\ UNCHANGED <<group, record, rsplit, bill, bills>>

NextOcc ==
    \/ DateIntervalNew
    \/ NumDaysBoundedBy
    \/ NewInterval
    \/ OccupancyOver

SpecOcc == InitOcc /\ [][NextOcc]_vars

(***************************************************************************)
(* Specification of occupancy_over at the limits of u32.  The roommate of  *)
(* an interval is not read, so one roommate holds every interval.          *)
(***************************************************************************)
\* additional_people: none, or the two largest values of u32
ExtrasU32 == {0, U32Max - 1, U32Max}

\* one more ResponsibilityInterval::new collected into the record
NewIntervalU32 ==
    /\ Building
    /\ Len(record) < MaxIntervals
    /\ \E s \in Days, e \in Days, x \in ExtrasU32 :
           LET di == create_interval(s, e)
               r == CHOOSE n \in Names : TRUE
           IN  /\ di.tag = "Ok"
               /\ record' = Append(record, ResponsibilityInterval(r, di, x))
               /\ call' = [op |-> "ResponsibilityInterval::new"]
               /\ UNCHANGED <<group, rsplit, bill, bills, ret>>

NextU32 ==
    \/ NewIntervalU32
    \/ OccupancyOver

SpecU32 == InitOcc /\ [][NextU32]_vars

(***************************************************************************)
(* steel_cent::Money                                                       *)
(***************************************************************************)
Money(currency, minor) == [currency |-> currency, minor |-> minor]

MoneyZero(currency) == Money(currency, 0)

\* PartialOrd: amounts of different currencies are not comparable
MoneyGt(a, b) == a.currency = b.currency /\ a.minor > b.minor

MoneyLt(a, b) == a.currency = b.currency /\ a.minor < b.minor

\* amounts a caller may pass in, negative ones included
Moneys == {Money(c, m) : c \in Currencies, m \in -2..MaxMinor}

(***************************************************************************)
(* bill.rs                                                                 *)
(***************************************************************************)
\* verify_shared_amount testing the sign before the upper limit
verify_shared_amount_sign_first(amount_due, shared_amount) ==
    IF amount_due.currency # shared_amount.currency
    THEN "MismatchedCurrencies"
    ELSE IF MoneyLt(shared_amount, MoneyZero(shared_amount.currency))
    THEN "Negative"
    ELSE IF MoneyGt(shared_amount, amount_due)
    THEN "ExceedsAmountDue"
    ELSE "Ok"

\* verify_shared_amount without the test of the sign
verify_shared_amount_no_sign(amount_due, shared_amount) ==
    IF amount_due.currency # shared_amount.currency
    THEN "MismatchedCurrencies"
    ELSE IF MoneyGt(shared_amount, amount_due)
    THEN "ExceedsAmountDue"
    ELSE "Ok"

\* verify_shared_amount
verify_shared_amount(amount_due, shared_amount) ==
    IF amount_due.currency # shared_amount.currency
    THEN "MismatchedCurrencies"
    ELSE IF MoneyGt(shared_amount, amount_due)
    THEN "ExceedsAmountDue"
    ELSE IF MoneyLt(shared_amount, MoneyZero(shared_amount.currency))
    THEN "Negative"
    ELSE "Ok"

\* Bill::new_with_fixed_cost
Bill_new_with_fixed_cost(amount_due, usage_period, fixed_cost) ==
    LET v == verify_shared_amount(amount_due, fixed_cost)
    IN  IF v # "Ok"
        THEN [tag |-> "Err", err |-> v]
        ELSE [tag |-> "Ok", amount_due |-> amount_due,
              fixed_cost |-> fixed_cost, usage_period |-> usage_period]

\* Bill::new building the Bill without verification
Bill_new_unverified(amount_due, usage_period) ==
    [tag |-> "Ok", amount_due |-> amount_due,
     fixed_cost |-> MoneyZero(amount_due.currency),
     usage_period |-> usage_period]

\* Bill::new: new_with_fixed_cost(.., Money::zero(currency)).unwrap()
Bill_new(amount_due, usage_period) ==
    LET res == Bill_new_with_fixed_cost(amount_due, usage_period,
                                        MoneyZero(amount_due.currency))
    IN  IF res.tag = "Ok" THEN res ELSE Panic

\* SharedBill::new
SharedBill_new(b, shared_amount) ==
    LET v == verify_shared_amount(b.amount_due, shared_amount)
    IN  IF v # "Ok"
        THEN [tag |-> "Err", err |-> v]
        ELSE [tag |-> "Ok", bill |-> b, shared_amount |-> shared_amount]

Unwrap(res) == IF res.tag = "Ok" THEN res ELSE Panic

(***************************************************************************)
(* shared_cost.rs                                                          *)
(***************************************************************************)
\* from_fixed sharing the whole amount due
from_fixed_shares_all(b) == Unwrap(SharedBill_new(b, b.amount_due))

\* SharedBill::from_fixed
from_fixed(b) == Unwrap(SharedBill_new(b, b.fixed_cost))

\* SharedBill::from_fully_fixed
from_fully_fixed(b) == Unwrap(SharedBill_new(b, b.amount_due))

\* SharedCostEstimator::mape compared with 0.2: |actual - predicted| / actual
\* in f64, where x / 0.0 is infinite for x > 0 and 0.0 / 0.0 is a NaN, which
\* compares false
mape_exceeds(predicted, actual) ==
    LET diff == IF actual >= predicted
                THEN actual - predicted ELSE predicted - actual
    IN  IF actual > 0
        THEN 100 * diff > MaxMapePct * actual
        ELSE IF actual = 0
        THEN diff > 0
        ELSE FALSE

\* i64 + i64 where the sum is out of range and overflow checks are off
WrapI64(x) == ((x - I64Min) % (2 ^ I64Width)) + I64Min

\* from_estimate testing the prediction before the fit
from_estimate_fit_gate_last(b, fit, actual, overflow_checks) ==
    IF fit.tag = "Err"
    THEN [tag |-> "Err", err |-> "InvalidModelData"]
    ELSE IF mape_exceeds(fit.predict, actual)
    THEN [tag |-> "Err", err |-> "ModelPredictsPoorly"]
    ELSE IF fit.rsquared < MinRSquaredPct
    THEN [tag |-> "Err", err |-> "ModelFitsDataPoorly"]
    ELSE LET sum == fit.predict_empty + b.fixed_cost.minor
             shared_cost == Max(Min(WrapI64(sum), b.amount_due.minor), 0)
         IN  IF overflow_checks /\ (sum > I64Max \/ sum < I64Min)
             THEN Panic
             ELSE Unwrap(SharedBill_new(b, Money(b.amount_due.currency,
                                                shared_cost)))

\* SharedBill::from_estimate.  `fit` is what linregress made of the bill
\* history: an error, or a model with its R squared (in hundredths), its
\* prediction for the current bill and its prediction for the empty house
\* (both already converted by to_money, whose cast to i64 saturates);
\* `actual` is bill_y.as_money().  The i64 addition panics when the build
\* checks overflow (debug) and wraps when it does not (release).
from_estimate(b, fit, actual, overflow_checks) ==
    IF fit.tag = "Err"
    THEN [tag |-> "Err", err |-> "InvalidModelData"]
    ELSE IF fit.rsquared < MinRSquaredPct
    THEN [tag |-> "Err", err |-> "ModelFitsDataPoorly"]
    ELSE IF mape_exceeds(fit.predict, actual)
    THEN [tag |-> "Err", err |-> "ModelPredictsPoorly"]
    ELSE LET sum == fit.predict_empty + b.fixed_cost.minor
             shared_cost == Max(Min(WrapI64(sum), b.amount_due.minor), 0)
         IN  IF overflow_checks /\ (sum > I64Max \/ sum < I64Min)
             THEN Panic
             ELSE Unwrap(SharedBill_new(b, Money(b.amount_due.currency,
                                                shared_cost)))

\* the amounts the gates compare: the prediction for the current bill and
\* the current bill's own dependent variable, both amounts of money due
Actuals == 0..(MaxMinor + 2)

\* what the regression may hand back; the empty-house prediction is of any
\* sign and magnitude, the limits of i64 included
Fits ==
    {[tag |-> "Err"]} \cup
    {[tag |-> "Ok", rsquared |-> r, predict |-> p, predict_empty |-> e] :
        r \in {MinRSquaredPct - 1, MinRSquaredPct, MinRSquaredPct + 1},
        p \in Actuals,
        e \in (-2..(MaxMinor + 1)) \cup {I64Min, I64Max}}

(***************************************************************************)
(* Specification of the Bill and SharedBill constructors: a Bill is        *)
(* constructed, then a SharedBill is made of it                            *)
(***************************************************************************)
\* Bill::new_with_fixed_cost(amount_due, usage_period, fixed_cost)
NewWithFixedCost ==
    /\ call.op = "none"
    /\ \E amount_due \in Moneys, usage_period \in DateIntervals,
          fixed_cost \in Moneys :
        LET res == Bill_new_with_fixed_cost(amount_due, usage_period,
                                            fixed_cost)
        IN  /\ call' = [op |-> "Bill::new_with_fixed_cost",
                        amount_due |-> amount_due,
                        usage_period |-> usage_period,
                        fixed_cost |-> fixed_cost]
            /\ ret' = res
            /\ bill' = IF res.tag = "Ok" THEN res ELSE bill
            /\ UNCHANGED <<group, record, rsplit, bills>>

\* Bill::new(amount_due, usage_period)
BillNew ==
    /\ call.op = "none"
    /\ \E amount_due \in Moneys, usage_period \in DateIntervals :
        LET res == Bill_new(amount_due, usage_period)
        IN  /\ call' = [op |-> "Bill::new", amount_due |-> amount_due,
                        usage_period |-> usage_period]
            /\ ret' = res
            /\ bill' = IF res.tag = "Ok" THEN res ELSE bill
            /\ UNCHANGED <<group, record, rsplit, bills>>

\* a Bill was returned by the last call
HaveBill ==
    /\ call.op \in {"Bill::new", "Bill::new_with_fixed_cost"}
    /\ bill.tag = "Ok"

\* SharedBill::new(bill, shared_amount)
SharedBillNew ==
    /\ HaveBill
    /\ \E shared_amount \in Moneys :
        /\ call' = [op |-> "SharedBill::new", bill |-> bill,
                    shared_amount |-> shared_amount]
        /\ ret' = SharedBill_new(bill, shared_amount)
        /\ UNCHANGED <<group, record, rsplit, bill, bills>>

\* SharedBill::from_fixed(bill)
FromFixed ==
    /\ HaveBill
    /\ call' = [op |-> "SharedBill::from_fixed", bill |-> bill]
    /\ ret' = from_fixed(bill)
    /\ UNCHANGED <<group, record, rsplit, bill, bills>>

\* SharedBill::from_fully_fixed(bill)
FromFullyFixed ==
    /\ HaveBill
    /\ call' = [op |-> "SharedBill::from_fully_fixed", bill |-> bill]
    /\ ret' = from_fully_fixed(bill)
    /\ UNCHANGED <<group, record, rsplit, bill, bills>>

\* SharedBill::from_estimate((bill, (bill_x, bill_y)), bill_history)
FromEstimate ==
    /\ HaveBill
    /\ \E fit \in Fits, actual \in Actuals, overflow_checks \in BOOLEAN :
        /\ call' = [op |-> "SharedBill::from_estimate", bill |-> bill,
                    fit |-> fit, actual |-> actual]
        /\ ret' = from_estimate(bill, fit, actual, overflow_checks)
        /\ UNCHANGED <<group, record, rsplit, bill, bills>>

InitBill ==
    /\ Init
    /\ group = Names

NextBill ==
    \/ NewWithFixedCost
    \/ BillNew
    \/ SharedBillNew
    \/ FromFixed
    \/ FromFullyFixed
    \/ FromEstimate

SpecBill == InitBill /\ [][NextBill]_vars

(***************************************************************************)
(* split.rs: cost splits                                                   *)
(***************************************************************************)
\* i64 division, which truncates toward zero (b > 0)
TruncDiv(a, b) == IF a >= 0 THEN a \div b ELSE -((-a) \div b)

\* Money / i64
MoneyDiv(m, n) == Money(m.currency, TruncDiv(m.minor, n))

\* Money + Money and Money - Money, of one currency
MoneyAdd(a, b) == Money(a.currency, a.minor + b.minor)

MoneySub(a, b) == Money(a.currency, a.minor - b.minor)

\* mul_rational dividing by the denominator before multiplying
mul_rational_divide_first(m, r) ==
    Money(m.currency, TruncDiv(m.minor, r.denom) * r.numer)

\* MulRatio::mul_rational: checked_mul(numer) then checked_div(denom)
mul_rational(m, r) ==
    Money(m.currency, TruncDiv(m.minor * r.numer, r.denom))

\* divide leaving out the equal share of the shared amount
divide_proportional_only(sb, personally_responsible, total_people) ==
    mul_rational(
        Money(sb.bill.amount_due.currency,
              MoneySub(sb.bill.amount_due, sb.shared_amount).minor),
        personally_responsible)

\* divide
divide(sb, personally_responsible, total_people) ==
    MoneyAdd(
        MoneyDiv(Money(sb.bill.amount_due.currency, sb.shared_amount.minor),
                 total_people),
        mul_rational(
            Money(sb.bill.amount_due.currency,
                  MoneySub(sb.bill.amount_due, sb.shared_amount).minor),
            personally_responsible))

\* CostSplit::new marking every entry RoundingCorrection::Above
CostSplit_new_above(split, total) ==
    [tag |-> "Ok",
     split |-> [k \in DOMAIN split |->
                   [money |-> split[k], correction |-> "Above"]],
     total |-> total]

\* CostSplit::new: every entry starts with RoundingCorrection::NoChange
CostSplit_new(split, total) ==
    [tag |-> "Ok",
     split |-> [k \in DOMAIN split |->
                   [money |-> split[k], correction |-> "NoChange"]],
     total |-> total]

\* CostSplit::split
CostSplit_split(sb, usage_proportion) ==
    CostSplit_new(
        [roommate \in DOMAIN usage_proportion.map |->
            divide(sb, usage_proportion.map[roommate],
                   Cardinality(DOMAIN usage_proportion.map))],
        sb.bill.amount_due)

\* apply_correction
apply_correction(entry) ==
    Money(entry.money.currency,
          (CASE entry.correction = "Above" -> 1
             [] entry.correction = "NoChange" -> 0
             [] entry.correction = "Below" -> -1)
          + entry.money.minor)

\* CostSplit::get (Some(..) for the roommates of the split)
get(cs, roommate) == apply_correction(cs.split[roommate])

\* CostSplit::into_iter, as the map of its items
into_iter(cs) == [k \in DOMAIN cs.split |-> apply_correction(cs.split[k])]

\* the fold of from_iter storing each item in place of adding it
RECURSIVE from_iter_fold_overwrite(_, _, _)
from_iter_fold_overwrite(acc, splits, currency) ==
    IF splits = <<>>
    THEN acc
    ELSE LET c == Head(splits)
             items == into_iter(c)
             keys == DOMAIN acc.split \cup DOMAIN items
             m == [k \in keys |->
                      LET val == IF k \in DOMAIN acc.split
                                 THEN acc.split[k]
                                 ELSE [money |-> MoneyZero(currency),
                                       correction |-> "NoChange"]
                      IN  IF k \in DOMAIN items
                          THEN [val EXCEPT !.money = items[k]]
                          ELSE val]
         IN  IF c.total.currency # currency
             THEN Panic
             ELSE from_iter_fold_overwrite(
                      [tag |-> "Ok", split |-> m,
                       total |-> MoneyAdd(acc.total, c.total)],
                      Tail(splits), currency)

\* the fold of from_iter without the assertions on the currency
RECURSIVE from_iter_fold_unchecked(_, _, _)
from_iter_fold_unchecked(acc, splits, currency) ==
    IF splits = <<>>
    THEN acc
    ELSE LET c == Head(splits)
             items == into_iter(c)
             keys == DOMAIN acc.split \cup DOMAIN items
             m == [k \in keys |->
                      LET val == IF k \in DOMAIN acc.split
                                 THEN acc.split[k]
                                 ELSE [money |-> MoneyZero(currency),
                                       correction |-> "NoChange"]
                      IN  IF k \in DOMAIN items
                          THEN [val EXCEPT
                                   !.money = MoneyAdd(@, items[k])]
                          ELSE val]
         IN  from_iter_fold_unchecked(
                 [tag |-> "Ok", split |-> m,
                  total |-> MoneyAdd(acc.total, c.total)],
                 Tail(splits), currency)

\* the fold of FromIterator<CostSplit>::from_iter over the CostSplits
RECURSIVE from_iter_fold(_, _, _)
from_iter_fold(acc, splits, currency) ==
    IF splits = <<>>
    THEN acc
    ELSE LET c == Head(splits)
             items == into_iter(c)
             keys == DOMAIN acc.split \cup DOMAIN items
             m == [k \in keys |->
                      LET val == IF k \in DOMAIN acc.split
                                 THEN acc.split[k]
                                 ELSE [money |-> MoneyZero(currency),
                                       correction |-> "NoChange"]
                      IN  IF k \in DOMAIN items
                          THEN [val EXCEPT
                                   !.money = MoneyAdd(@, items[k])]
                          ELSE val]
         IN  IF c.total.currency # currency
             THEN Panic
             ELSE from_iter_fold(
                      [tag |-> "Ok", split |-> m,
                       total |-> MoneyAdd(acc.total, c.total)],
                      Tail(splits), currency)

\* FromIterator<CostSplit> for CostSplit
from_iter(splits) ==
    IF splits = <<>>
    THEN Panic
    ELSE LET currency == Head(splits).total.currency
         IN  from_iter_fold(
                 [tag |-> "Ok", split |-> << >>,
                  total |-> MoneyZero(currency)],
                 splits, currency)

\* CostSplit::split_bill_list
split_bill_list(bills_with_usage_proportions) ==
    from_iter([i \in 1..Len(bills_with_usage_proportions) |->
                  CostSplit_split(bills_with_usage_proportions[i][1],
                                  bills_with_usage_proportions[i][2])])

\* tests::new_bill: SharedBill::new(Bill::new(total, period), shared)
new_bill(total, shared) ==
    LET b == Bill_new(total, create_interval(0, MaxDay))
    IN  IF b.tag = "Ok" THEN Unwrap(SharedBill_new(b, shared)) ELSE Panic

(***************************************************************************)
(* Specification of the cost splits: a ResponsibilitySplit of the group is *)
(* given, SharedBills are made, and they are split                         *)
(***************************************************************************)
Ratios == {RatioNew(n, d) : n \in 0..MaxDenom, d \in 1..MaxDenom}

\* the splits build_split makes of the maps from the group to Ratios
InitCost ==
    /\ group \in SUBSET Names \ {{}}
    /\ rsplit \in {build_split(group, m, o) :
                        m \in [group -> Ratios], o \in Orders(group)}
    /\ rsplit.tag = "Ok"
    /\ record = <<>>
    /\ bill = None
    /\ bills = <<>>
    /\ call = [op |-> "none"]
    /\ ret = None

BuildingBills == call.op \in {"none", "new_bill"}

\* group.build_split(map)
BuildSplit ==
    /\ call.op = "none"
    /\ \E map \in [group -> Ratios], order \in Orders(group) :
        /\ call' = [op |-> "build_split", map |-> map]
        /\ ret' = build_split(group, map, order)
        /\ UNCHANGED <<group, record, rsplit, bill, bills>>

\* one more SharedBill for the list
PushBill ==
    /\ BuildingBills
    /\ Len(bills) < MaxBills
    /\ \E total \in Moneys, shared \in Moneys :
        LET sb == new_bill(total, shared)
        IN  /\ sb.tag = "Ok"
            /\ bills' = Append(bills, sb)
            /\ call' = [op |-> "new_bill"]
            /\ UNCHANGED <<group, record, rsplit, bill, ret>>

\* CostSplit::split(&bills[i], &rsplit)
Split ==
    /\ BuildingBills
    /\ \E i \in 1..Len(bills) :
        /\ call' = [op |-> "CostSplit::split", bill |-> bills[i]]
        /\ ret' = CostSplit_split(bills[i], rsplit)
        /\ UNCHANGED <<group, record, rsplit, bill, bills>>

\* CostSplit::split_bill_list(bills.iter().map(|bill| (bill, &rsplit)))
SplitBillList ==
    /\ BuildingBills
    /\ call' = [op |-> "CostSplit::split_bill_list"]
    /\ ret' = split_bill_list([i \in 1..Len(bills) |-> <<bills[i], rsplit>>])
    /\ UNCHANGED <<group, record, rsplit, bill, bills>>

NextCost ==
    \/ BuildSplit
    \/ PushBill
    \/ Split
    \/ SplitBillList

SpecCost == InitCost /\ [][NextCost]_vars

(***************************************************************************)
(* examples/cli.rs: generate_invoices, the run from the record and the     *)
(* SharedBills to the amounts each roommate owes                           *)
(***************************************************************************)
\* generate_invoices pairing every bill with the split of the first bill's
\* usage period
generate_invoices_first_split(roommate_group, shared_bills, intervals, orders) ==
    LET bill_list ==
            [i \in 1..Len(shared_bills) |->
                <<shared_bills[i],
                  individual_responsibilities(
                      roommate_group, intervals,
                      shared_bills[1].bill.usage_period, orders[i])>>]
        cost_split == split_bill_list(bill_list)
    IN  IF \E i \in 1..Len(bill_list) : bill_list[i][2] = Panic
        THEN Panic
        ELSE IF cost_split = Panic
        THEN Panic
        ELSE [tag |-> "Ok",
              total |-> cost_split.total,
              invoices |->
                  [to \in DOMAIN cost_split.split |->
                      [total |-> get(cost_split, to),
                       components |->
                           [i \in 1..Len(bill_list) |->
                               [amount_due |-> bill_list[i][1].bill.amount_due,
                                shared_amount |->
                                    bill_list[i][1].shared_amount,
                                responsibility_proportion |->
                                    bill_list[i][2].map[to]]]]]]

\* generate_invoices: each bill is paired with the split of its own usage
\* period, the pairs go to split_bill_list, and every roommate of the
\* CostSplit gets an Invoice of the total and of one component per bill.
\* orders[i] is the order in which the ratios of the i-th split are summed.
generate_invoices(roommate_group, shared_bills, intervals, orders) ==
    LET bill_list ==
            [i \in 1..Len(shared_bills) |->
                <<shared_bills[i],
                  individual_responsibilities(
                      roommate_group, intervals,
                      shared_bills[i].bill.usage_period, orders[i])>>]
        cost_split == split_bill_list(bill_list)
    IN  IF \E i \in 1..Len(bill_list) : bill_list[i][2] = Panic
        THEN Panic
        ELSE IF cost_split = Panic
        THEN Panic
        ELSE [tag |-> "Ok",
              total |-> cost_split.total,
              invoices |->
                  [to \in DOMAIN cost_split.split |->
                      [total |-> get(cost_split, to),
                       components |->
                           [i \in 1..Len(bill_list) |->
                               [amount_due |-> bill_list[i][1].bill.amount_due,
                                shared_amount |->
                                    bill_list[i][1].shared_amount,
                                responsibility_proportion |->
                                    bill_list[i][2].map[to]]]]]]

\* the intervals a record of a run holds for one person: none, or one
\* interval from the first day on, without additional people
OwnIntervals(r) ==
    {<<>>} \cup
    {<<ResponsibilityInterval(r, create_interval(0, e), 0)>> : e \in Days}

RECURSIVE RecordsOf(_)
RecordsOf(names) ==
    IF names = <<>>
    THEN {<<>>}
    ELSE {a \o b : a \in OwnIntervals(Head(names)),
                   b \in RecordsOf(Tail(names))}

\* the records of a run: the intervals of the people of Names, one after
\* the other, whether or not they are roommates of the group
RunRecords == RecordsOf(CHOOSE o \in Orders(Names) : TRUE)

InitRun ==
    /\ group \in SUBSET Names
    /\ record \in RunRecords
    /\ rsplit = None
    /\ bill = None
    /\ bills = <<>>
    /\ call = [op |-> "none"]
    /\ ret = None

BuildingRun == call.op \in {"none", "SharedBill::new"}

\* the bills of a run are of one currency
RunCurrency == CHOOSE c \in Currencies : TRUE

\* one more SharedBill of the run: MaxMinor minor units due for the usage
\* period, one of them shared
PushPeriodBill ==
    /\ BuildingRun
    /\ Len(bills) < MaxBills
    /\ \E usage_period \in DateIntervals :
        LET b == Bill_new(Money(RunCurrency, MaxMinor), usage_period)
            sb == SharedBill_new(b, Money(RunCurrency, 1))
        IN  /\ sb.tag = "Ok"
            /\ bills' = Append(bills, sb)
            /\ call' = [op |-> "SharedBill::new"]
            /\ UNCHANGED <<group, record, rsplit, bill, ret>>

\* generate_invoices(&group, bills, &record)
GenerateInvoices ==
    /\ BuildingRun
    /\ \E orders \in [1..Len(bills) -> Orders(group)] :
        /\ call' = [op |-> "generate_invoices"]
        /\ ret' = generate_invoices(group, bills, record, orders)
        /\ UNCHANGED <<group, record, rsplit, bill, bills>>

NextRun ==
    \/ PushPeriodBill
    \/ GenerateInvoices

SpecRun == InitRun /\ [][NextRun]_vars

(***************************************************************************)
(* shared_cost.rs: the variables of the regression, the fitted estimator   *)
(* and the conversion of a Bill and its history.  The f64 values of the    *)
(* source are integers here; what linregress fits is not computed: the     *)
(* fitted coefficients and R squared are inputs of the calls.              *)
(***************************************************************************)
\* Occupancy(u32)
Occupancy(n) == [kind |-> "Occupancy", occupancy |-> n]

\* OccupancyAndTemperature(u32, f64)
OccupancyAndTemperature(n, ti) ==
    [kind |-> "OccupancyAndTemperature", occupancy |-> n, ti |-> ti]

\* IndependentVariable::to_linregress_data_fmt, as a map from label to value
to_linregress_data_fmt(x) ==
    IF x.kind = "Occupancy"
    THEN [l \in {"Occupancy"} |-> x.occupancy]
    ELSE [l \in {"Occupancy", "TemperatureIndex"} |->
             IF l = "Occupancy" THEN x.occupancy ELSE x.ti]

\* an empty() that resets every variable
empty_resets_all(x) ==
    IF x.kind = "Occupancy"
    THEN Occupancy(0)
    ELSE OccupancyAndTemperature(0, 0)

\* IndependentVariable::empty
empty(x) ==
    IF x.kind = "Occupancy"
    THEN Occupancy(0)
    ELSE OccupancyAndTemperature(0, x.ti)

\* DependentVariable::new(value, currency, |x| x)
DependentVariable(value, currency) == [value |-> value, currency |-> currency]

\* f64 as i64 saturates
SaturateI64(v) == Max(I64Min, Min(I64Max, v))

\* DependentVariable::to_money
to_money(y, value) == Money(y.currency, SaturateI64(value))

\* DependentVariable::as_money
as_money(y) == to_money(y, y.value)

\* SharedCostEstimator::predict: the linear model applied to the data of x,
\* then to_money
predict(est, x) ==
    LET data == to_linregress_data_fmt(x)
        raw_output ==
            est.intercept
            + est.parameters["Occupancy"] * data["Occupancy"]
            + (IF "TemperatureIndex" \in DOMAIN data
               THEN est.parameters["TemperatureIndex"]
                        * data["TemperatureIndex"]
               ELSE 0)
    IN  to_money(est.bill_y, raw_output)

\* SharedCostEstimator::predict_empty
predict_empty(est, x) == predict(est, empty(x))

\* the temperature indices of the model
Temperatures == {0, 1}

\* the occupancies handed to a model directly
Occupancies == 0..(MaxDay + 1)

IndependentVariables ==
    {Occupancy(n) : n \in Occupancies} \cup
    {OccupancyAndTemperature(n, ti) : n \in Occupancies, ti \in Temperatures}

\* what SharedCostEstimator::new may return for variables of a kind and the
\* current bill's dependent variable: an error, or a model of any R squared
\* (in hundredths), intercept and coefficients
Estimators(kind, bill_y) ==
    {[tag |-> "Err"]} \cup
    {[tag |-> "Ok", rsquared |-> r, intercept |-> c, bill_y |-> bill_y,
      parameters |-> p] :
        r \in {MinRSquaredPct - 1, MinRSquaredPct, MinRSquaredPct + 1},
        c \in {0, MaxMinor},
        p \in [(IF kind = "Occupancy"
                THEN {"Occupancy"}
                ELSE {"Occupancy", "TemperatureIndex"}) -> {0, 1}]}

\* what from_estimate reads of the estimator for the current bill
evaluate(est, bill_x) ==
    IF est.tag = "Err"
    THEN [tag |-> "Err"]
    ELSE [tag |-> "Ok", rsquared |-> est.rsquared,
          predict |-> predict(est, bill_x).minor,
          predict_empty |-> predict_empty(est, bill_x).minor]

\* Bill::variable_cost
variable_cost(b) == MoneySub(b.amount_due, b.fixed_cost)

\* the arguments convert_to_shared hands to from_estimate
convert_to_shared_args(b, history, intervals, overflow_checks) ==
    LET occ(p) == occupancy_over_u32(intervals, p, overflow_checks)
        amount_due == variable_cost(b)
    IN  [bill |-> b,
         bill_x |-> Occupancy(occ(b.usage_period).value),
         bill_y |-> DependentVariable(amount_due.minor, amount_due.currency),
         bill_history |->
             [i \in 1..Len(history) |->
                 <<Occupancy(occ(history[i].usage_period).value),
                   DependentVariable(history[i].amount_due.minor,
                                     amount_due.currency)>>]]

\* the arguments convert_to_shared_ti hands to from_estimate; the history is
\* of pairs of a Bill and its temperature index
convert_to_shared_ti_args(b, current_ti, history, intervals, overflow_checks) ==
    LET occ(p) == occupancy_over_u32(intervals, p, overflow_checks)
        amount_due == variable_cost(b)
    IN  [bill |-> b,
         bill_x |-> OccupancyAndTemperature(occ(b.usage_period).value,
                                            current_ti),
         bill_y |-> DependentVariable(amount_due.minor, amount_due.currency),
         bill_history |->
             [i \in 1..Len(history) |->
                 <<OccupancyAndTemperature(
                       occ(history[i][1].usage_period).value, history[i][2]),
                   DependentVariable(history[i][1].amount_due.minor,
                                     amount_due.currency)>>]]

\* an occupancy_over of the conversion panicked
occupancy_panics(b, history_bills, intervals, overflow_checks) ==
    \/ occupancy_over_u32(intervals, b.usage_period, overflow_checks) = Panic
    \/ \E i \in 1..Len(history_bills) :
           occupancy_over_u32(intervals, history_bills[i].usage_period,
                              overflow_checks) = Panic

\* convert_to_shared((bill, history), intervals); est is the estimator that
\* SharedCostEstimator::new fits on the history
convert_to_shared(b, history, intervals, est, overflow_checks) ==
    LET args == convert_to_shared_args(b, history, intervals, overflow_checks)
    IN  IF occupancy_panics(b, history, intervals, overflow_checks)
        THEN Panic
        ELSE from_estimate(b, evaluate(est, args.bill_x),
                           as_money(args.bill_y).minor, overflow_checks)

\* convert_to_shared_ti(((bill, current_ti), history), intervals)
convert_to_shared_ti(b, current_ti, history, intervals, est, overflow_checks) ==
    LET args == convert_to_shared_ti_args(b, current_ti, history, intervals,
                                          overflow_checks)
    IN  IF occupancy_panics(b, [i \in 1..Len(history) |-> history[i][1]],
                            intervals, overflow_checks)
        THEN Panic
        ELSE from_estimate(b, evaluate(est, args.bill_x),
                           as_money(args.bill_y).minor, overflow_checks)

(***************************************************************************)
(* Specification of the estimator and of the conversions: a history of     *)
(* Bills with their temperature indices is collected, then the current     *)
(* Bill is converted                                                       *)
(***************************************************************************)
\* the usage periods of the bills that are converted
ConvertPeriods == {create_interval(0, 0), create_interval(0, MaxDay)}

\* the bills that are converted: MaxMinor minor units due, none or one of
\* them a fixed cost
ConvertBills ==
    {Bill_new_with_fixed_cost(Money(RunCurrency, MaxMinor), p,
                              Money(RunCurrency, f)) :
        p \in ConvertPeriods, f \in {0, 1}}

InitEst ==
    /\ group = Names
    /\ record \in RecordsOf(<<CHOOSE n \in Names : TRUE>>)
    /\ rsplit = None
    /\ bill = None
    /\ bills = <<>>
    /\ call = [op |-> "none"]
    /\ ret = None

BuildingHistory == call.op \in {"none", "Bill::new_with_fixed_cost"}

\* one more Bill of the history, with its temperature index
PushHistoryBill ==
    /\ BuildingHistory
    /\ Len(bills) < MaxBills
    /\ \E b \in ConvertBills, ti \in Temperatures :
        /\ bills' = Append(bills, <<b, ti>>)
        /\ call' = [op |-> "Bill::new_with_fixed_cost"]
        /\ UNCHANGED <<group, record, rsplit, bill, ret>>

\* convert_to_shared((bill, history), &record)
ConvertToShared ==
    /\ BuildingHistory
    /\ \E b \in ConvertBills, overflow_checks \in BOOLEAN :
        LET history == [i \in 1..Len(bills) |-> bills[i][1]]
            args == convert_to_shared_args(b, history, record,
                                           overflow_checks)
        IN  \E est \in Estimators("Occupancy", args.bill_y) :
                /\ call' = [op |-> "convert_to_shared", args |-> args]
                /\ ret' = convert_to_shared(b, history, record, est,
                                            overflow_checks)
                /\ bill' = b
                /\ UNCHANGED <<group, record, rsplit, bills>>

\* convert_to_shared_ti(((bill, current_ti), history), &record)
ConvertToSharedTi ==
    /\ BuildingHistory
    /\ \E b \in ConvertBills, current_ti \in Temperatures,
          overflow_checks \in BOOLEAN :
        LET args == convert_to_shared_ti_args(b, current_ti, bills, record,
                                              overflow_checks)
        IN  \E est \in Estimators("OccupancyAndTemperature", args.bill_y) :
                /\ call' = [op |-> "convert_to_shared_ti", args |-> args]
                /\ ret' = convert_to_shared_ti(b, current_ti, bills, record,
                                               est, overflow_checks)
                /\ bill' = b
                /\ UNCHANGED <<group, record, rsplit, bills>>

\* x.empty()
Empty ==
    /\ call.op = "none"
    /\ \E x \in IndependentVariables :
        /\ call' = [op |-> "empty", x |-> x]
        /\ ret' = empty(x)
        /\ UNCHANGED <<group, record, rsplit, bill, bills>>

\* model.predict_empty(&x), the model fitted for a current bill of
\* RunCurrency
PredictEmpty ==
    /\ call.op = "none"
    /\ \E x \in IndependentVariables :
        \E est \in Estimators(x.kind, DependentVariable(0, RunCurrency))
                       \ {[tag |-> "Err"]} :
            /\ call' = [op |-> "predict_empty", est |-> est, x |-> x]
            /\ ret' = predict_empty(est, x)
            /\ UNCHANGED <<group, record, rsplit, bill, bills>>

NextEst ==
    \/ PushHistoryBill
    \/ ConvertToShared
    \/ ConvertToSharedTi
    \/ Empty
    \/ PredictEmpty

SpecEst == InitEst /\ [][NextEst]_vars

(***************************************************************************)
(* Reference quantities, counted day by day                                *)
(***************************************************************************)
RECURSIVE SeqSum(_)
SeqSum(q) == IF q = <<>> THEN 0 ELSE Head(q) + SeqSum(Tail(q))

RECURSIVE SetSum(_, _)
SetSum(f, S) ==
    IF S = {}
    THEN 0
    ELSE LET x == CHOOSE y \in S : TRUE IN f[x] + SetSum(f, S \ {x})

RECURSIVE SetProd(_, _)
SetProd(f, S) ==
    IF S = {}
    THEN 1
    ELSE LET x == CHOOSE y \in S : TRUE IN f[x] * SetProd(f, S \ {x})

\* the calendar days that lie in both intervals, end days included
CommonDays(a, b) == (a.start .. a.end) \cap (b.start .. b.end)

\* person-days of the intervals selected by Keep(_) inside the period
PersonDays(intervals, period, Keep(_)) ==
    SeqSum([i \in 1..Len(intervals) |->
               IF Keep(intervals[i])
               THEN (1 + intervals[i].additional_people)
                        * Cardinality(CommonDays(intervals[i].interval, period))
               ELSE 0])

TotalPersonDays(intervals, period) ==
    PersonDays(intervals, period, LAMBDA i : TRUE)

Disjoint(a, b) == a.end < b.start \/ b.end < a.start

CalledOccupancy == call.op = "occupancy_over"

CalledSplit == call.op = "individual_responsibilities"

(***************************************************************************)
(* Claims about occupancy_over                                             *)
(***************************************************************************)
\* C5: occupancy_over(window) is the sum over the record's intervals of
\* (1 + additional_people) times the number of calendar days the interval
\* has in common with the window, both end days counted.
C5_OccupancyIsPersonDays ==
    CalledOccupancy =>
        ret.value = TotalPersonDays(record, call.period)

\* an interval equal to a two-day window, with a guest, has been counted
C5_Witness ==
    /\ CalledOccupancy
    /\ call.period.start < call.period.end
    /\ \E i \in 1..Len(record) :
           /\ record[i].interval = call.period
           /\ record[i].additional_people > 0
    /\ ret.value >= 2 * (call.period.end - call.period.start + 1)

\* the interval with its start moved to s, when it starts at or before the
\* window and s is at or before the window's start
ExtendedStart(iv, period, s) ==
    IF iv.start <= period.start /\ s <= period.start
    THEN [iv EXCEPT !.start = s]
    ELSE iv

\* the interval with its end moved to e, when it ends at or after the
\* window and e is at or after the window's end
ExtendedEnd(iv, period, e) ==
    IF iv.end >= period.end /\ e >= period.end
    THEN [iv EXCEPT !.end = e]
    ELSE iv

\* C6: an interval entirely outside the window contributes 0 to
\* occupancy_over, and moving an interval's start (end) further beyond the
\* window's start (end) leaves occupancy_over of that window unchanged.
C6_OnlyInsideCounts ==
    CalledOccupancy =>
        /\ ret.value =
               occupancy_over(
                   SelectSeq(record,
                             LAMBDA r : ~Disjoint(r.interval, call.period)),
                   call.period)
        /\ \A i \in 1..Len(record), s \in -1..MaxDay :
               ret.value =
                   occupancy_over(
                       [record EXCEPT
                           ![i].interval = ExtendedStart(@, call.period, s)],
                       call.period)
        /\ \A i \in 1..Len(record), e \in 0..(MaxDay + 1) :
               ret.value =
                   occupancy_over(
                       [record EXCEPT
                           ![i].interval = ExtendedEnd(@, call.period, e)],
                       call.period)

\* the record holds an interval outside the window and one that reaches
\* beyond the window, and the occupancy is not zero
C6_Witness ==
    /\ CalledOccupancy
    /\ ret.value > 0
    /\ \E i \in 1..Len(record) : Disjoint(record[i].interval, call.period)
    /\ \E j \in 1..Len(record) :
           /\ ~Disjoint(record[j].interval, call.period)
           /\ \/ record[j].interval.start < call.period.start
              \/ record[j].interval.end > call.period.end

\* C16: occupancy_over never panics and never overflows: for every record
\* of intervals with start <= end, every additional_people of the type and
\* every window it returns the person-days of the record in the window.
C16_OccupancyOverIsTotal ==
    CalledOccupancy =>
        /\ ret.tag = "Ok"
        /\ ret.value >= 0
        /\ ret.value = TotalPersonDays(record, call.period)

\* C17: DateInterval construction returns NegativeLengthInterval exactly
\* when the end date is before the start date, start = end gives a one-day
\* interval, and every DateInterval satisfies start <= end.
C17_NegativeLengthRejected ==
    /\ call.op = "DateInterval::new" =>
           IF call.end < call.start
           THEN ret = [tag |-> "Err", err |-> "NegativeLengthInterval"]
           ELSE /\ ret = [tag |-> "Ok", start |-> call.start, end |-> call.end]
                /\ Cardinality(CommonDays(ret, ret)) >= 1
    /\ \A i \in 1..Len(record) :
           record[i].interval.start <= record[i].interval.end
    /\ CalledOccupancy => call.period.start <= call.period.end

\* an interval of one day was constructed
C17_Witness ==
    /\ call.op = "DateInterval::new"
    /\ call.start = call.end
    /\ ret.tag = "Ok"
    /\ Cardinality(CommonDays(ret, ret)) = 1

\* the occupancy of the record of the state over the window [first, last]
WindowOccupancy(first, last) ==
    occupancy_over_u32(record, create_interval(first, last), TRUE)

\* C29: occupancy is additive over adjacent windows: for a <= b < c,
\* occupancy_over([a, c]) = occupancy_over([a, b]) + occupancy_over([b+1, c]);
\* and a wider window never has a smaller occupancy.
C29_OccupancyAdditive ==
    (CalledOccupancy /\ ret.tag = "Ok") =>
        /\ \A b \in call.period.start..(call.period.end - 1) :
               /\ WindowOccupancy(call.period.start, b).tag = "Ok"
               /\ WindowOccupancy(b + 1, call.period.end).tag = "Ok"
               /\ ret.value = WindowOccupancy(call.period.start, b).value
                                + WindowOccupancy(b + 1, call.period.end).value
        /\ \A first \in call.period.start..call.period.end :
               \A last \in first..call.period.end :
                   /\ WindowOccupancy(first, last).tag = "Ok"
                   /\ WindowOccupancy(first, last).value <= ret.value

\* the occupancy of a window was computed that splits into two windows of
\* non-zero occupancy, inside an interval with additional people
C29_Witness ==
    /\ CalledOccupancy
    /\ ret.tag = "Ok"
    /\ \E b \in call.period.start..(call.period.end - 1) :
           /\ WindowOccupancy(call.period.start, b).value > 0
           /\ WindowOccupancy(b + 1, call.period.end).value > 0
           /\ WindowOccupancy(b + 1, call.period.end).value < ret.value
    /\ \E i \in 1..Len(record) :
           /\ record[i].additional_people > 0
           /\ record[i].interval.start <= call.period.start
           /\ call.period.end <= record[i].interval.end

\* C25: the bounded day count is symmetric in its two intervals, and it is
\* the number of days of the interval when the interval lies inside the
\* bounds.
C25_BoundedDaysSymmetric ==
    call.op = "num_days_bounded_by" =>
        /\ ret = num_days_bounded_by(call.bounds, call.self)
        /\ (/\ call.bounds.start <= call.self.start
            /\ call.self.end <= call.bounds.end) =>
               ret = call.self.end - call.self.start + 1

\* the days of an interval were counted within bounds that begin before it
\* and end after it
C25_Witness ==
    /\ call.op = "num_days_bounded_by"
    /\ call.bounds.start < call.self.start
    /\ call.self.end < call.bounds.end
    /\ ret = call.self.end - call.self.start + 1
    /\ ret < call.bounds.end - call.bounds.start + 1

(***************************************************************************)
(* Claims about individual_responsibilities                                *)
(***************************************************************************)
\* the ratios of the split, summed over the group, are exactly 1
RatiosSumToOne(map) ==
    LET P == SetProd([r \in DOMAIN map |-> map[r].denom], DOMAIN map)
    IN  SetSum([r \in DOMAIN map |-> map[r].numer * (P \div map[r].denom)],
               DOMAIN map) = P

\* the sum of the ratios of the map, in units of 1/P, P the product of the
\* denominators
ScaledSum(map) ==
    LET P == SetProd([r \in DOMAIN map |-> map[r].denom], DOMAIN map)
    IN  SetSum([r \in DOMAIN map |-> map[r].numer * (P \div map[r].denom)],
               DOMAIN map)

ScaledOne(map) == SetProd([r \in DOMAIN map |-> map[r].denom], DOMAIN map)

\* C15: build_split of a map over the group returns the map as the split
\* when its ratios sum to exactly 1, the equal split when they sum to
\* exactly 0, and otherwise the InvalidSplit error and no split.
C15_InvalidSplitUnlessZeroOrOne ==
    call.op = "build_split" =>
        IF ScaledSum(call.map) = ScaledOne(call.map)
        THEN ret = [tag |-> "Ok", map |-> call.map]
        ELSE IF ScaledSum(call.map) = 0
        THEN /\ ret.tag = "Ok"
             /\ DOMAIN ret.map = group
             /\ \A r \in group : ret.map[r] = RatioNew(1, Cardinality(group))
        ELSE ret = [tag |-> "Err", err |-> "InvalidSplit"]

\* a map of two proper fractions whose sum is more than 1 was rejected
C15_Witness ==
    /\ call.op = "build_split"
    /\ Cardinality(group) = 2
    /\ ScaledSum(call.map) > ScaledOne(call.map)
    /\ \A r \in group : call.map[r].numer < call.map[r].denom
    /\ ret = [tag |-> "Err", err |-> "InvalidSplit"]

C4_ZeroOccupancyEqualSplit ==
    (/\ CalledSplit
     /\ TotalPersonDays(record, call.period) = 0) =>
        /\ ret.tag = "Ok"
        /\ DOMAIN ret.map = group
        /\ \A r \in group :
               ret.map[r] = [numer |-> 1, denom |-> Cardinality(group)]

\* a window disjoint from the recorded intervals, split between two
C4_Witness ==
    /\ CalledSplit
    /\ record # <<>>
    /\ \A i \in 1..Len(record) : Disjoint(record[i].interval, call.period)
    /\ Cardinality(group) = 2
    /\ ret.tag = "Ok"

\* C7: when the total occupancy is not zero, the ratio of each roommate r of
\* the group is the occupancy of r's own intervals over the window divided
\* by the occupancy of all intervals, as an exact fraction.
C7_RatioIsOwnOverTotal ==
    (/\ CalledSplit
     /\ ret.tag = "Ok"
     /\ TotalPersonDays(record, call.period) > 0) =>
        \A r \in group :
            /\ ret.map[r].denom > 0
            /\ ret.map[r].numer * TotalPersonDays(record, call.period) =
                   ret.map[r].denom
                       * PersonDays(record, call.period,
                                    LAMBDA i : i.roommate = r)

\* the ratios roommate_responsibility derives for the roommates of the group
DerivedRatios ==
    [r \in group |-> roommate_responsibility(record, r, call.period)]

\* C18: individual_responsibilities never fails with InvalidSplit: for every
\* group, record and billing window the ratios it derives sum to exactly 0
\* or exactly 1 and a ResponsibilitySplit is returned.
C18_NeverInvalidSplit ==
    CalledSplit =>
        /\ \/ ScaledSum(DerivedRatios) = 0
           \/ ScaledSum(DerivedRatios) = ScaledOne(DerivedRatios)
        /\ ret.tag = "Ok"

(***************************************************************************)
(* Claims about the Bill and SharedBill constructors                       *)
(***************************************************************************)
Err(e) == [tag |-> "Err", err |-> e]

\* 0 <= part <= whole, in one currency
WithinAmount(part, whole) ==
    /\ part.currency = whole.currency
    /\ 0 <= part.minor
    /\ part.minor <= whole.minor

\* C9: Bill::new_with_fixed_cost returns MismatchedCurrencies when the
\* currencies differ, otherwise ExceedsAmountDue when fixed_cost > amount_due,
\* otherwise Negative when fixed_cost < 0, otherwise a Bill of its arguments;
\* so every Bill satisfies 0 <= fixed_cost <= amount_due in one currency.
C9_FixedCostVerified ==
    /\ call.op = "Bill::new_with_fixed_cost" =>
           IF call.fixed_cost.currency # call.amount_due.currency
           THEN ret = Err("MismatchedCurrencies")
           ELSE IF call.fixed_cost.minor > call.amount_due.minor
           THEN ret = Err("ExceedsAmountDue")
           ELSE IF call.fixed_cost.minor < 0
           THEN ret = Err("Negative")
           ELSE /\ ret.tag = "Ok"
                /\ ret.amount_due = call.amount_due
                /\ ret.fixed_cost = call.fixed_cost
                /\ ret.usage_period = call.usage_period
    /\ bill.tag = "Ok" => WithinAmount(bill.fixed_cost, bill.amount_due)

\* a negative fixed cost above a still lower amount due was rejected as
\* exceeding the amount due
C9_Witness ==
    /\ call.op = "Bill::new_with_fixed_cost"
    /\ call.fixed_cost.currency = call.amount_due.currency
    /\ call.fixed_cost.minor < 0
    /\ call.fixed_cost.minor > call.amount_due.minor
    /\ ret = Err("ExceedsAmountDue")

SharedBillConstructors ==
    {"SharedBill::new", "SharedBill::from_fixed",
     "SharedBill::from_fully_fixed", "SharedBill::from_estimate"}

\* C10: every SharedBill, whichever constructor returned it, satisfies
\* 0 <= shared_amount <= amount_due in amount_due's currency, and
\* SharedBill::new returns an error when its arguments would not.
C10_SharedAmountWithinAmountDue ==
    call.op \in SharedBillConstructors =>
        /\ ret.tag = "Ok" =>
               /\ ret.bill = call.bill
               /\ WithinAmount(ret.shared_amount, ret.bill.amount_due)
        /\ (/\ call.op = "SharedBill::new"
            /\ ~WithinAmount(call.shared_amount, call.bill.amount_due)) =>
               ret.tag = "Err"

\* from_estimate returned a SharedBill whose empty-house prediction plus
\* fixed cost was negative
C10_Witness ==
    /\ call.op = "SharedBill::from_estimate"
    /\ ret.tag = "Ok"
    /\ call.fit.predict_empty + call.bill.fixed_cost.minor < 0
    /\ ret.shared_amount.minor = 0
    /\ ret.bill.amount_due.minor > 0

\* C30: Bill::new(amount_due, period) returns a Bill of that amount and
\* period with fixed_cost zero and variable_cost equal to amount_due when
\* amount_due >= 0; for a negative amount_due the zero fixed cost exceeds the
\* amount due, the constructor panics and no Bill is produced.
C30_BillNewZeroFixedCost ==
    call.op = "Bill::new" =>
        IF call.amount_due.minor >= 0
        THEN /\ ret.tag = "Ok"
             /\ ret.amount_due = call.amount_due
             /\ ret.usage_period = call.usage_period
             /\ ret.fixed_cost = MoneyZero(call.amount_due.currency)
             /\ MoneySub(ret.amount_due, ret.fixed_cost) = call.amount_due
             /\ bill = ret
        ELSE /\ ret = Panic
             /\ bill = None
             /\ Bill_new_with_fixed_cost(
                    call.amount_due, call.usage_period,
                    MoneyZero(call.amount_due.currency))
                        = Err("ExceedsAmountDue")

\* Bill::new panicked on a negative amount due
C30_Witness ==
    /\ call.op = "Bill::new"
    /\ call.amount_due.minor < 0
    /\ ret = Panic
    /\ bill = None

\* C11: whenever from_estimate returns a SharedBill, its shared amount is
\* min(max(empty-house prediction + fixed_cost, 0), amount_due), in the
\* bill's currency, whatever the sign or magnitude of the prediction.
C11_SharedAmountIsClampedSum ==
    (call.op = "SharedBill::from_estimate" /\ ret.tag = "Ok") =>
        /\ ret.shared_amount.currency = call.bill.amount_due.currency
        /\ ret.shared_amount.minor =
               Min(Max(call.fit.predict_empty + call.bill.fixed_cost.minor, 0),
                   call.bill.amount_due.minor)

\* |actual - predicted| / actual exceeds 0.20 (a division by zero of a
\* non-zero difference is infinite)
ErrorExceeds(predicted, actual) ==
    \/ actual > 0 /\ 5 * (actual - predicted) > actual
    \/ actual > 0 /\ 5 * (predicted - actual) > actual
    \/ actual = 0 /\ predicted # 0

\* C12: with a fitted model, from_estimate returns ModelFitsDataPoorly when
\* R squared is below 0.70, otherwise ModelPredictsPoorly when the absolute
\* percentage error on the current bill exceeds 0.20; values exactly at 0.70
\* and 0.20 are rejected by neither gate, and a rejection returns no
\* SharedBill.
C12_GatesRejectInOrder ==
    (call.op = "SharedBill::from_estimate" /\ call.fit.tag = "Ok") =>
        IF call.fit.rsquared < 70
        THEN ret = Err("ModelFitsDataPoorly")
        ELSE IF ErrorExceeds(call.fit.predict, call.actual)
        THEN ret = Err("ModelPredictsPoorly")
        ELSE ret.tag # "Err"

\* a model with R squared of exactly 0.70 and an error of exactly 0.20 was
\* accepted and a SharedBill returned
C12_Witness ==
    /\ call.op = "SharedBill::from_estimate"
    /\ call.fit.tag = "Ok"
    /\ call.fit.rsquared = 70
    /\ call.actual > 0
    /\ 5 * (call.actual - call.fit.predict) = call.actual
    /\ ret.tag = "Ok"

\* C20: from_fixed fails for no Bill and shares the bill's fixed_cost;
\* from_fully_fixed shares the bill's amount_due; the SharedBill of either
\* has the amount_due and the usage_period of the Bill it was given.
C20_FixedConstructors ==
    /\ call.op = "SharedBill::from_fixed" =>
           /\ ret.tag = "Ok"
           /\ ret.shared_amount = call.bill.fixed_cost
           /\ ret.bill.amount_due = call.bill.amount_due
           /\ ret.bill.usage_period = call.bill.usage_period
    /\ call.op = "SharedBill::from_fully_fixed" =>
           /\ ret.tag = "Ok"
           /\ ret.shared_amount = call.bill.amount_due
           /\ ret.bill.amount_due = call.bill.amount_due
           /\ ret.bill.usage_period = call.bill.usage_period

\* from_fixed was given a Bill whose fixed cost is part of the amount due
C20_Witness ==
    /\ call.op = "SharedBill::from_fixed"
    /\ call.bill.fixed_cost.minor > 0
    /\ call.bill.fixed_cost.minor < call.bill.amount_due.minor
    /\ call.bill.usage_period.start < call.bill.usage_period.end
    /\ ret.tag = "Ok"

(***************************************************************************)
(* Claims about cost splits                                                *)
(***************************************************************************)
\* the amounts read from a CostSplit, summed over its roommates
SumOfAmounts(cs) ==
    SetSum([k \in DOMAIN cs.split |-> get(cs, k).minor], DOMAIN cs.split)

\* C1: the per-roommate amounts of one bill's CostSplit, read through get,
\* sum to exactly the bill's amount_due.
C1_SplitSumsToAmountDue ==
    call.op = "CostSplit::split" =>
        SumOfAmounts(ret) = call.bill.bill.amount_due.minor

\* C2: after split_bill_list over a non-empty list of bills of one
\* currency, the per-roommate amounts read from the CostSplit sum to its
\* recorded total.
C2_ListSumsToTotal ==
    (call.op = "CostSplit::split_bill_list" /\ ret.tag = "Ok") =>
        SumOfAmounts(ret) = ret.total.minor

\* the currency of the i-th bill of the list
CurrencyOf(i) == bills[i].bill.amount_due.currency

\* C13: split_bill_list yields no CostSplit (it panics) when the currency of
\* any bill of the list differs from the currency of the first bill.
C13_MixedCurrenciesRejected ==
    (/\ call.op = "CostSplit::split_bill_list"
     /\ \E i \in 1..Len(bills) : CurrencyOf(i) # CurrencyOf(1)) =>
        ret = Panic

\* a list whose last bill alone is of another currency was given
C13_Witness ==
    /\ call.op = "CostSplit::split_bill_list"
    /\ Len(bills) >= 2
    /\ CurrencyOf(Len(bills)) # CurrencyOf(1)
    /\ \A i \in 1..(Len(bills) - 1) : CurrencyOf(i) = CurrencyOf(1)
    /\ ret = Panic

\* the rearrangements of the positions 1..n
Rearrangements(n) ==
    {f \in [1..n -> 1..n] : \A i \in 1..n : \E j \in 1..n : f[j] = i}

\* C14: split_bill_list over any permutation of the (bill, split) pairs
\* returns the same recorded total and the same accumulated amount for
\* every roommate (and panics for every permutation if it panics for one).
C14_OrderOfBillsIrrelevant ==
    call.op = "CostSplit::split_bill_list" =>
        \A f \in Rearrangements(Len(bills)) :
            LET permuted ==
                    split_bill_list(
                        [i \in 1..Len(bills) |-> <<bills[f[i]], rsplit>>])
            IN  IF ret.tag = "Ok"
                THEN /\ permuted.tag = "Ok"
                     /\ permuted.total = ret.total
                     /\ DOMAIN permuted.split = DOMAIN ret.split
                     /\ \A r \in DOMAIN ret.split :
                            get(permuted, r) = get(ret, r)
                ELSE permuted = ret

\* two bills of different amounts were accumulated, and some roommate owes
\* a different amount for each of them
C14_Witness ==
    /\ call.op = "CostSplit::split_bill_list"
    /\ ret.tag = "Ok"
    /\ Len(bills) >= 2
    /\ bills[1].bill.amount_due # bills[2].bill.amount_due
    /\ \E r \in DOMAIN ret.split :
           /\ get(CostSplit_split(bills[1], rsplit), r)
                  # get(CostSplit_split(bills[2], rsplit), r)
           /\ get(ret, r).minor > 0

\* C19: a run of individual_responsibilities followed by split_bill_list on
\* the same group, record and bills gives the same per-roommate amounts and
\* the same total (or the same panic) whatever the order in which the
\* roommate set and the maps are iterated.
C19_RunIsDeterministic ==
    call.op = "generate_invoices" =>
        \A orders \in [1..Len(bills) -> Orders(group)] :
            LET again == generate_invoices(group, bills, record, orders)
            IN  IF ret.tag = "Ok"
                THEN /\ again.tag = "Ok"
                     /\ again.total = ret.total
                     /\ DOMAIN again.invoices = DOMAIN ret.invoices
                     /\ \A to \in DOMAIN ret.invoices :
                            again.invoices[to].total = ret.invoices[to].total
                ELSE again = ret

\* two roommates with unequal ratios for one bill and equal ratios for
\* another were invoiced
C19_Witness ==
    /\ call.op = "generate_invoices"
    /\ ret.tag = "Ok"
    /\ Cardinality(group) = 2
    /\ Len(bills) >= 2
    /\ \E to \in group, i, j \in 1..Len(bills) :
           /\ ret.invoices[to].components[i].responsibility_proportion.denom > 2
           /\ ret.invoices[to].components[j].responsibility_proportion.denom = 2
           /\ ret.invoices[to].total.minor > 0

\* the split of the usage period of the i-th bill of the run, computed for
\* that bill alone
OwnSplit(i) ==
    individual_responsibilities(group, record, bills[i].bill.usage_period,
                                CHOOSE o \in Orders(group) : TRUE)

\* C24: in an invoice run, each bill is divided with the split of its own
\* usage period: every component carries the proportion of that period, a
\* bill whose period has zero occupancy carries 1/N for every roommate, and
\* what a roommate owes is the sum of what each bill alone, divided with its
\* own split, gives that roommate.
C24_EachBillHasItsOwnSplit ==
    (call.op = "generate_invoices" /\ ret.tag = "Ok") =>
        \A to \in DOMAIN ret.invoices :
            /\ \A i \in 1..Len(bills) :
                   LET c == ret.invoices[to].components[i]
                   IN  /\ OwnSplit(i).tag = "Ok"
                       /\ c.responsibility_proportion = OwnSplit(i).map[to]
                       /\ c.amount_due = bills[i].bill.amount_due
                       /\ c.shared_amount = bills[i].shared_amount
                       /\ TotalPersonDays(record, bills[i].bill.usage_period) = 0
                              => c.responsibility_proportion
                                     = RatioNew(1, Cardinality(group))
            /\ bills # <<>> =>
                   ret.invoices[to].total.minor =
                       SeqSum([i \in 1..Len(bills) |->
                                  get(CostSplit_split(bills[i], OwnSplit(i)),
                                      to).minor])

\* two roommates were invoiced for a bill of a period with zero occupancy
\* and a bill of a period in which they were present unequally
C24_Witness ==
    /\ call.op = "generate_invoices"
    /\ ret.tag = "Ok"
    /\ Cardinality(group) = 2
    /\ \E i, j \in 1..Len(bills) :
           /\ TotalPersonDays(record, bills[i].bill.usage_period) = 0
           /\ \A to \in group :
                  ret.invoices[to].components[i].responsibility_proportion
                      = RatioNew(1, 2)
           /\ \E to \in group :
                  ret.invoices[to].components[j].responsibility_proportion.denom
                      > 2

\* C28: the split of every bill has exactly the roommates of the group as
\* its keys; when the total occupancy of the bill's period is not zero, a
\* roommate of the group with no interval overlapping the period has ratio 0
\* and is charged exactly trunc(shared_amount / N) for that bill.
C28_AbsentRoommatePaysEqualShareOnly ==
    (call.op = "generate_invoices" /\ ret.tag = "Ok") =>
        /\ DOMAIN ret.invoices = group
        /\ \A to \in group : \A i \in 1..Len(bills) :
               (/\ TotalPersonDays(record, bills[i].bill.usage_period) > 0
                /\ PersonDays(record, bills[i].bill.usage_period,
                              LAMBDA iv : iv.roommate = to) = 0) =>
                   /\ ret.invoices[to].components[i].responsibility_proportion
                          = RatioFromInteger(0)
                   /\ get(CostSplit_split(bills[i], OwnSplit(i)), to).minor
                          = TruncDiv(bills[i].shared_amount.minor,
                                     Cardinality(group))
                   /\ Len(bills) = 1 =>
                          ret.invoices[to].total.minor
                              = TruncDiv(bills[i].shared_amount.minor,
                                         Cardinality(group))

\* C21: after split_bill_list over a non-empty list of bills of one
\* currency, the recorded total is the sum of the bills' amount_due and each
\* roommate's amount is the sum of the amounts CostSplit::split gives that
\* roommate for the single bills.
C21_AccumulatedIsSumOfSingles ==
    (/\ call.op = "CostSplit::split_bill_list"
     /\ bills # <<>>
     /\ \A i \in 1..Len(bills) : CurrencyOf(i) = CurrencyOf(1)) =>
        /\ ret.tag = "Ok"
        /\ ret.total.currency = CurrencyOf(1)
        /\ ret.total.minor =
               SeqSum([i \in 1..Len(bills) |-> bills[i].bill.amount_due.minor])
        /\ DOMAIN ret.split = DOMAIN rsplit.map
        /\ \A r \in DOMAIN rsplit.map :
               /\ get(ret, r).currency = CurrencyOf(1)
               /\ get(ret, r).minor =
                      SeqSum([i \in 1..Len(bills) |->
                                 get(CostSplit_split(bills[i], rsplit), r).minor])

\* a list of the greatest length was accumulated, and every roommate owes
\* something for every bill
C21_Witness ==
    /\ call.op = "CostSplit::split_bill_list"
    /\ ret.tag = "Ok"
    /\ Len(bills) = MaxBills
    /\ Cardinality(DOMAIN rsplit.map) = 2
    /\ \A i \in 1..Len(bills) : \A r \in DOMAIN rsplit.map :
           get(CostSplit_split(bills[i], rsplit), r).minor > 0

\* C26: for one bill with non-negative amounts split among N >= 1
\* roommates, the per-roommate amounts sum to no more than amount_due and to
\* no less than amount_due - 2 * (N - 1); a single roommate is charged
\* exactly amount_due.
C26_ShortfallBounded ==
    (/\ call.op = "CostSplit::split"
     /\ call.bill.shared_amount.minor >= 0
     /\ call.bill.bill.amount_due.minor >= call.bill.shared_amount.minor) =>
        LET N == Cardinality(DOMAIN ret.split)
            amount_due == call.bill.bill.amount_due.minor
        IN  /\ N >= 1
            /\ SumOfAmounts(ret) <= amount_due
            /\ amount_due - SumOfAmounts(ret) <= 2 * (N - 1)
            /\ N = 1 => SumOfAmounts(ret) = amount_due

\* a bill was split between two roommates with the largest shortfall, one
\* minor unit lost in each of the two divisions
C26_Witness ==
    /\ call.op = "CostSplit::split"
    /\ Cardinality(DOMAIN ret.split) = 2
    /\ call.bill.shared_amount.minor % 2 = 1
    /\ call.bill.bill.amount_due.minor - SumOfAmounts(ret) = 2

C8_AmountIsTruncatedTerms ==
    call.op = "CostSplit::split" =>
        LET N == Cardinality(DOMAIN rsplit.map)
            shared == call.bill.shared_amount.minor
            variable == call.bill.bill.amount_due.minor - shared
        IN  /\ DOMAIN ret.split = DOMAIN rsplit.map
            /\ \A r \in DOMAIN rsplit.map :
                   \E q1 \in 0..shared, q2 \in 0..variable :
                       /\ q1 * N <= shared
                       /\ shared < (q1 + 1) * N
                       /\ q2 * rsplit.map[r].denom
                              <= variable * rsplit.map[r].numer
                       /\ variable * rsplit.map[r].numer
                              < (q2 + 1) * rsplit.map[r].denom
                       /\ get(ret, r).minor = q1 + q2
                       /\ get(ret, r).currency
                              = call.bill.bill.amount_due.currency

\* a bill was split whose shared amount is no multiple of N and whose
\* variable cost times the numerator is no multiple of the denominator
C8_Witness ==
    /\ call.op = "CostSplit::split"
    /\ call.bill.shared_amount.minor % Cardinality(DOMAIN rsplit.map) # 0
    /\ \E r \in DOMAIN rsplit.map :
           /\ rsplit.map[r].numer > 1
           /\ ((call.bill.bill.amount_due.minor
                    - call.bill.shared_amount.minor)
                   * rsplit.map[r].numer) % rsplit.map[r].denom # 0
           /\ get(ret, r).minor > 0

(***************************************************************************)
(* Claims about the estimator and the conversions                          *)
(***************************************************************************)
\* C22: the zero-occupancy variant used for the empty-house prediction sets
\* only the occupancy to 0: empty() of an Occupancy is Occupancy(0), empty()
\* of an OccupancyAndTemperature keeps the temperature index, and
\* predict_empty is the model's output for occupancy 0 and the temperature
\* index of the variable it was given.
C22_EmptyZeroesOnlyOccupancy ==
    /\ call.op = "empty" =>
        /\ ret.kind = call.x.kind
        /\ ret.occupancy = 0
        /\ call.x.kind = "Occupancy" => ret = Occupancy(0)
        /\ call.x.kind = "OccupancyAndTemperature" => ret.ti = call.x.ti
    /\ call.op = "predict_empty" =>
        /\ ret.currency = call.est.bill_y.currency
        /\ ret.minor =
               SaturateI64(
                   call.est.intercept
                   + (IF call.x.kind = "OccupancyAndTemperature"
                      THEN call.est.parameters["TemperatureIndex"] * call.x.ti
                      ELSE 0))

\* an empty-house prediction was made for an occupied house with a
\* temperature index that the model weighs
C22_Witness ==
    /\ call.op = "predict_empty"
    /\ call.x.kind = "OccupancyAndTemperature"
    /\ call.x.occupancy > 0
    /\ call.x.ti # 0
    /\ call.est.parameters["Occupancy"] # 0
    /\ call.est.parameters["TemperatureIndex"] # 0
    /\ ret.minor = call.est.intercept + call.x.ti

\* C23: convert_to_shared and convert_to_shared_ti hand the variable cost
\* (amount_due - fixed_cost) to the regression as the dependent variable,
\* for the current bill and for every bill of the history.
C23_DependentVariableIsVariableCost ==
    call.op \in {"convert_to_shared", "convert_to_shared_ti"} =>
        /\ call.args.bill_y.value
               = bill.amount_due.minor - bill.fixed_cost.minor
        /\ \A i \in 1..Len(bills) :
               call.args.bill_history[i][2].value
                   = bills[i][1].amount_due.minor
                         - bills[i][1].fixed_cost.minor

====
